---------------------------- MODULE Spec2Model ----------------------------
(***************************************************************************)
(* Model of the global tag throttler of fdbserver                          *)
(* (GlobalTagThrottler.actor.cpp): the controller's tables, its public     *)
(* operations, the rate derivation of getClientRates and the quota-watcher *)
(* actor monitorThrottlingChanges; and of the tenant management           *)
(* transactions of fdbclient (TenantManagement.actor.h): the tenant map,   *)
(* its tombstones and group index, createTenantTransaction,                *)
(* deleteTenantTransaction and the retry loop of renameTenant.             *)
(*                                                                         *)
(* Conventions.                                                            *)
(*  - Optional<T> is a sequence: <<>> is the empty optional, <<v>> holds v.*)
(*    A computation that fails an ASSERT (flow throws internal_error) is   *)
(*    the two-element sequence Failed.                                     *)
(*  - A double is an exact rational <<n, d>> with d > 0 in lowest terms;   *)
(*    floating-point rounding is not modelled.  Quotas, reported costs and *)
(*    transaction counts are integers.                                     *)
(*  - Time is counted in folding times of the smoothers.                   *)
(***************************************************************************)
EXTENDS Integers, Sequences, FiniteSets, TLC

VARIABLES
    throttledTagChangeId,   \* uint64_t throttledTagChangeId
    throttlingRatios,       \* unordered_map<UID, Optional<double>>
    tagStatistics,          \* unordered_map<TransactionTag, PerTagStatistics>
    throughput,             \* unordered_map<UID, unordered_map<TransactionTag, ThroughputCounters>>
    quotaTable,             \* the database's tagQuotaKeys range: tag -> stored value
    watcher,                \* where monitorThrottlingChanges is suspended
    returned,               \* value returned by the getClientRates call just made
    limitingTpsSeen,        \* what getLimitingTps(tag) gave that call, per tracked tag
    targetCostSeen,         \* the targetCost that call computed, per tag that got one
    steps,                  \* number of counted steps taken so far (see MaxSteps)
    tenantMap,              \* TenantMetadata::tenantMap: name -> TenantMapEntry
    tenantTombstones,       \* TenantMetadata::tenantTombstones: set of tenant ids
    tenantGroupTenantIndex, \* TenantMetadata::tenantGroupTenantIndex: set of (group, name)
    tenantData,             \* the tenant prefixes under which the database holds keys
    cluster,                \* metacluster registration, tenant_mode, tenantDataPrefixKey
    renameActor,            \* the state of one renameTenant actor
    tenantReturned,         \* what the tenant transaction just run returned or threw
    tenantSteps,            \* number of tenant management steps taken so far
    limitingStage           \* inputs and result of the limiting-stage function just applied

\* The variables of the tag throttler
throttlerVars == <<throttledTagChangeId, throttlingRatios, tagStatistics, throughput,
                   quotaTable, watcher, returned, limitingTpsSeen, targetCostSeen, steps>>

\* The variables of tenant management
tenantVars == <<tenantMap, tenantTombstones, tenantGroupTenantIndex, tenantData,
                cluster, renameActor, tenantReturned, tenantSteps>>

\* The variable of the limiting stage applied on its own
stageVars == <<limitingStage>>

vars == <<throttlerVars, tenantVars, stageVars>>

(***************************************************************************)
(* Input domains and bounds                                                *)
(***************************************************************************)
\* The tags, in the key order of the quota range
TagsInKeyOrder == <<"t1", "t2">>

Tags == {TagsInKeyOrder[i] : i \in DOMAIN TagsInKeyOrder}

Servers == {"s1", "s2"}

Priorities == {"BATCH", "DEFAULT"}

READ == "READ"

WRITE == "WRITE"

OpTypes == {READ, WRITE}

\* Length of the explored runs: every interleaving of at most MaxSteps
\* mutating operations, database writes and watcher steps is checked, with any
\* number of getClientRates calls and time steps in between.
\* (The change id, a uint64_t, stays far from wrapping.)
MaxSteps == 4

\* SERVER_KNOBS->GLOBAL_TAG_THROTTLING_MIN_RATE
GLOBAL_TAG_THROTTLING_MIN_RATE == 1

\* SERVER_KNOBS->GLOBAL_TAG_THROTTLING_FOLDING_TIME, the unit of model time
GLOBAL_TAG_THROTTLING_FOLDING_TIME == 1

(***************************************************************************)
(* Optional<T>                                                             *)
(***************************************************************************)
None == <<>>

Some(v) == <<v>>

Failed == <<"internal_error", "ASSERT">>

present(o) == Len(o) = 1

failed(o) == Len(o) = 2

get(o) == o[1]

orDefault(o, d) == IF present(o) THEN o[1] ELSE d

\* get(m, k) of the source: lookup in an unordered_map
mapGet(m, k) == IF k \in DOMAIN m THEN Some(m[k]) ELSE None

(***************************************************************************)
(* Exact rationals standing for doubles                                    *)
(***************************************************************************)
RECURSIVE GCD(_, _)
GCD(a, b) == IF b = 0 THEN a ELSE GCD(b, a % b)

\* n/d in lowest terms; n/0 is +infinity (<<1, 0>>) and 0/0 is NaN (<<0, 0>>)
Rat(n, d) == LET g == GCD(n, d) IN IF g = 0 THEN <<0, 0>> ELSE <<n \div g, d \div g>>

RatInt(n) == <<n, 1>>

RatLE(a, b) == a[1] * b[2] <= b[1] * a[2]

RatLT(a, b) == a[1] * b[2] < b[1] * a[2]

RatMin(a, b) == IF RatLT(b, a) THEN b ELSE a

RatMax(a, b) == IF RatLT(a, b) THEN b ELSE a

RatMul(a, b) == Rat(a[1] * b[1], a[2] * b[2])

RatDiv(a, b) == Rat(a[1] * b[2], a[2] * b[1])

RatAdd(a, b) == Rat(a[1] * b[2] + b[1] * a[2], a[2] * b[2])

RatIsZero(a) == a[1] = 0 /\ a[2] # 0

RECURSIVE RatSum(_)
RatSum(seq) == IF seq = <<>> THEN RatInt(0) ELSE RatAdd(Head(seq), RatSum(Tail(seq)))

\* The sequences that enumerate a finite set once each: the orders in which an
\* unordered_map may be traversed.
Perms(S) == {q \in [1..Cardinality(S) -> S] : \A x \in S : \E i \in DOMAIN q : q[i] = x}

\* The traversal order of a map whose key set is S, under the order `order`
Restrict(order, S) == SelectSeq(order, LAMBDA x : x \in S)

(***************************************************************************)
(* Smoother (fdbrpc/Smoother.h): a level `total` and its exponentially     *)
(* smoothed `estimate`.  update() is applied through Elapse below.         *)
(***************************************************************************)
NewSmoother == [total |-> RatInt(0), estimate |-> RatInt(0)]

addDelta(sm, delta) == [sm EXCEPT !.total = RatAdd(@, delta)]

setTotal(sm, v) == [sm EXCEPT !.total = v]

getTotal(sm) == sm.total

smoothTotal(sm) == sm.estimate

\* (total - estimate) / eFoldingTime
smoothRate(sm) ==
    RatDiv(RatAdd(sm.total, <<0 - sm.estimate[1], sm.estimate[2]>>),
           RatInt(GLOBAL_TAG_THROTTLING_FOLDING_TIME))

\* update(t) after a time much longer than the folding time: the factor
\* 1 - exp(-elapsed / eFoldingTime) is 1 and the estimate reaches the total.
relax(sm) == [sm EXCEPT !.estimate = sm.total]

(***************************************************************************)
(* ThroughputCounters and PerTagStatistics                                 *)
(***************************************************************************)
NewThroughputCounters == [readCost |-> NewSmoother, writeCost |-> NewSmoother]

\* the rate is taken for reads and writes alike
updateCostOfBothOps(c, newCost, opType) ==
    [c EXCEPT !.readCost = setTotal(@, newCost), !.writeCost = setTotal(@, newCost)]

updateCost(c, newCost, opType) ==
    IF opType = READ
    THEN [c EXCEPT !.readCost = setTotal(@, newCost)]
    ELSE [c EXCEPT !.writeCost = setTotal(@, newCost)]

getCost(c, opType) ==
    IF opType = READ THEN smoothTotal(c.readCost) ELSE smoothTotal(c.writeCost)

NewPerTagStatistics ==
    [quota |-> None, transactionCounter |-> NewSmoother, perClientRate |-> NewSmoother]

getTransactionRate(stats) == smoothRate(stats.transactionCounter)

\* operator[] of the unordered_map: the entry, default-constructed when missing
statsAt(ts, tag) == IF tag \in DOMAIN ts THEN ts[tag] ELSE NewPerTagStatistics

\* m with m[k] = v, k added to the map when missing
mapPut(m, k, v) == [x \in DOMAIN m \cup {k} |-> IF x = k THEN v ELSE m[x]]

(***************************************************************************)
(* Rate derivation.  The operators read the controller's tables; `ord` is  *)
(* the traversal order of the unordered_maps during one call:              *)
(*   ord.tags      order of tagStatistics                                  *)
(*   ord.servers   order of throttlingRatios                               *)
(*   ord.affecting order of throughput[server], per server with telemetry  *)
(***************************************************************************)
Orders ==
    LET affectingOrders ==
            UNION {Perms(DOMAIN throughput[s]) : s \in DOMAIN throughput}
    IN [tags : Perms(DOMAIN tagStatistics),
        servers : Perms(DOMAIN throttlingRatios),
        affecting : {f \in [DOMAIN throughput -> affectingOrders] :
                        \A s \in DOMAIN throughput : f[s] \in Perms(DOMAIN throughput[s])}]

\* `auto const v = ...;` : the value of an expression under a name, for the
\* rest of a function body
With(v, F(_)) == F(v)

With2(v, w, F(_, _)) == F(v, w)

With3(u, v, w, F(_, _, _)) == F(u, v, w)

\* getCurrentCost(UID, TransactionTag, OpType)
getCurrentCostForTagOnServer(storageServerId, tag, opType) ==
    With(mapGet(throughput, storageServerId), LAMBDA tagToThroughputCounters :
        IF ~present(tagToThroughputCounters) THEN None
        ELSE With(mapGet(get(tagToThroughputCounters), tag), LAMBDA throughputCounter :
                 IF ~present(throughputCounter) THEN None
                 ELSE Some(getCost(get(throughputCounter), opType))))

\* result += perTagThroughput.getCost(opType) over the entries of m
sumOfCosts(m, opType) ==
    With(CHOOSE q \in Perms(DOMAIN m) : TRUE, LAMBDA ts :
        RatSum([i \in DOMAIN ts |-> getCost(m[ts[i]], opType)]))

\* getCurrentCost(UID, OpType)
getCurrentCostOnServer(storageServerId, opType) ==
    With(mapGet(throughput, storageServerId), LAMBDA tagToPerTagThroughput :
        IF ~present(tagToPerTagThroughput) THEN None
        ELSE Some(sumOfCosts(get(tagToPerTagThroughput), opType)))

\* getCurrentCost(TransactionTag, OpType)
getCurrentCostForTag(tag, opType) ==
    With(CHOOSE q \in Perms(DOMAIN throughput) : TRUE, LAMBDA ss :
        RatSum([i \in DOMAIN ss |->
                   orDefault(getCurrentCostForTagOnServer(ss[i], tag, opType), RatInt(0))]))

\* The end of both getAverageTransactionCost functions: absent at transaction
\* rate zero, cost / transactionRate otherwise
costPerTransaction(cost, transactionRate) ==
    IF RatIsZero(transactionRate) THEN None
    ELSE Some(RatDiv(cost, transactionRate))

\* getAverageTransactionCost(TransactionTag, UID, OpType)
getAverageTransactionCostOnServer(tag, storageServerId, opType) ==
    With2(getCurrentCostForTagOnServer(storageServerId, tag, opType), mapGet(tagStatistics, tag),
          LAMBDA cost, stats :
              IF ~present(cost) THEN None
              ELSE IF ~present(stats) THEN None
              ELSE costPerTransaction(get(cost), getTransactionRate(get(stats))))

\* getAverageTransactionCost(TransactionTag, OpType)
getAverageTransactionCost(tag, opType) ==
    With2(getCurrentCostForTag(tag, opType), mapGet(tagStatistics, tag),
          LAMBDA cost, stats :
              IF ~present(stats) THEN None
              ELSE costPerTransaction(cost, getTransactionRate(get(stats))))

getTagsAffectingStorageServer(storageServerId, ord) ==
    IF ~present(mapGet(throughput, storageServerId)) THEN <<>>
    ELSE ord.affecting[storageServerId]

\* The field of a quota that getQuota returns
quotaField(q, opType, limitType) ==
    IF limitType = "TOTAL"
    THEN RatInt(IF opType = READ THEN q.totalReadQuota ELSE q.totalWriteQuota)
    ELSE RatInt(IF opType = READ THEN q.reservedReadQuota ELSE q.reservedWriteQuota)

getQuota(tag, opType, limitType) ==
    With(mapGet(tagStatistics, tag), LAMBDA stats :
        IF ~present(stats) THEN None
        ELSE IF ~present(get(stats).quota) THEN None
        ELSE Some(quotaField(get(get(stats).quota), opType, limitType)))

\* The end of getQuotaRatio, after its loop
quotaRatioOf(tagQuota, sumQuota) ==
    IF RatIsZero(tagQuota) THEN Some(RatInt(0))
    ELSE IF ~RatLT(RatInt(0), sumQuota) THEN Failed
    ELSE Some(RatDiv(tagQuota, sumQuota))

\* The loop of getQuotaRatio over tagsAffectingStorageServer.  The comparison
\* tag.compare(tag) == 0 of the source holds for every iterated t, so tagQuota
\* ends as the quota of the tag traversed last.
quotaRatioLoop(tagsAffectingStorageServer, opType) ==
    quotaRatioOf(
        IF tagsAffectingStorageServer = <<>> THEN RatInt(0)
        ELSE orDefault(getQuota(tagsAffectingStorageServer[Len(tagsAffectingStorageServer)],
                                opType, "TOTAL"),
                       RatInt(0)),
        RatSum([i \in DOMAIN tagsAffectingStorageServer |->
                   orDefault(getQuota(tagsAffectingStorageServer[i], opType, "TOTAL"), RatInt(0))]))

\* tagQuota is the quota of `tag` itself, whether or not the loop meets it
getQuotaRatioOfOwnQuota(tag, storageServerId, opType, ord) ==
    quotaRatioOf(orDefault(getQuota(tag, opType, "TOTAL"), RatInt(0)),
                 RatSum([i \in DOMAIN getTagsAffectingStorageServer(storageServerId, ord) |->
                            orDefault(getQuota(getTagsAffectingStorageServer(storageServerId, ord)[i],
                                               opType, "TOTAL"),
                                      RatInt(0))]))

getQuotaRatio(tag, storageServerId, opType, ord) ==
    quotaRatioLoop(getTagsAffectingStorageServer(storageServerId, ord), opType)

\* the guard returns early when the current cost is absent
getLimitingCostUnlessCostAbsent(storageServerId, opType) ==
    With2(mapGet(throttlingRatios, storageServerId), getCurrentCostOnServer(storageServerId, opType),
          LAMBDA throttlingRatio, currentCost :
              IF ~present(throttlingRatio) \/ ~present(currentCost) \/ ~present(get(throttlingRatio))
              THEN None
              ELSE Some(RatMul(get(get(throttlingRatio)), get(currentCost))))

getLimitingCost(storageServerId, opType) ==
    With2(mapGet(throttlingRatios, storageServerId), getCurrentCostOnServer(storageServerId, opType),
          LAMBDA throttlingRatio, currentCost :
              IF ~present(throttlingRatio) \/ present(currentCost) \/ ~present(get(throttlingRatio))
              THEN None
              ELSE IF ~present(currentCost) THEN Failed
              ELSE Some(RatMul(get(get(throttlingRatio)), get(currentCost))))

\* The body of getLimitingTps(UID, TransactionTag, OpType) once its three
\* locals are computed
limitingTpsOf(quotaRatio, limitingCost, averageTransactionCost) ==
    IF failed(quotaRatio) \/ failed(limitingCost) THEN Failed
    ELSE IF ~present(limitingCost) \/ ~present(averageTransactionCost) THEN None
    ELSE Some(RatDiv(RatMul(get(limitingCost), get(quotaRatio)),
                     get(averageTransactionCost)))

\* getLimitingTps(UID, TransactionTag, OpType)
getLimitingTpsOnServer(storageServerId, tag, opType, ord) ==
    limitingTpsOf(getQuotaRatio(tag, storageServerId, opType, ord),
                  getLimitingCost(storageServerId, opType),
                  getAverageTransactionCostOnServer(tag, storageServerId, opType))

\* One iteration of the loop of getLimitingTps(TransactionTag, OpType)
limitingTpsStep(result, targetTpsForSS) ==
    IF failed(result) \/ failed(targetTpsForSS) THEN Failed
    ELSE IF present(result) /\ present(targetTpsForSS)
    THEN Some(RatMin(get(result), get(targetTpsForSS)))
    ELSE targetTpsForSS

\* The loop of getLimitingTps(TransactionTag, OpType), given what
\* getLimitingTps(id, tag, opType) yields for the servers in traversal order
RECURSIVE limitingTpsOver(_, _)
limitingTpsOver(targetTpsForSSs, result) ==
    IF targetTpsForSSs = <<>> THEN result
    ELSE limitingTpsOver(Tail(targetTpsForSSs), limitingTpsStep(result, Head(targetTpsForSSs)))

\* The loop of getLimitingTps(TransactionTag, OpType) over the servers `ids`
limitingTpsLoop(ids, result, tag, opType, ord) ==
    limitingTpsOver([i \in DOMAIN ids |-> getLimitingTpsOnServer(ids[i], tag, opType, ord)],
                    result)

\* getLimitingTps(TransactionTag, OpType)
getLimitingTpsForOp(tag, opType, ord) ==
    limitingTpsLoop(ord.servers, None, tag, opType, ord)

\* if both present: std::min; else if the first is present: the first; else
\* the second
minOfPresent(readTps, writeTps) ==
    IF failed(readTps) \/ failed(writeTps) THEN Failed
    ELSE IF present(readTps) /\ present(writeTps)
    THEN Some(RatMin(get(readTps), get(writeTps)))
    ELSE IF present(readTps) THEN readTps
    ELSE writeTps

\* the same with std::max
maxOfPresent(readTps, writeTps) ==
    IF present(readTps) /\ present(writeTps)
    THEN Some(RatMax(get(readTps), get(writeTps)))
    ELSE IF present(readTps) THEN readTps
    ELSE writeTps

\* getLimitingTps(TransactionTag)
getLimitingTps(tag, ord) ==
    minOfPresent(getLimitingTpsForOp(tag, READ, ord), getLimitingTpsForOp(tag, WRITE, ord))

\* the desired rate is computed from the reserved quota
getDesiredTpsForOpFromReservedQuota(tag, opType) ==
    With2(getAverageTransactionCost(tag, opType), mapGet(tagStatistics, tag),
          LAMBDA averageTransactionCost, stats :
              IF ~present(averageTransactionCost) \/ RatIsZero(get(averageTransactionCost))
              THEN None
              ELSE IF ~present(stats) THEN None
              ELSE IF ~present(get(stats).quota) THEN None
              ELSE Some(RatDiv(quotaField(get(get(stats).quota), opType, "RESERVED"),
                               get(averageTransactionCost))))

\* getDesiredTps(TransactionTag, OpType)
getDesiredTpsForOp(tag, opType) ==
    With2(getAverageTransactionCost(tag, opType), mapGet(tagStatistics, tag),
          LAMBDA averageTransactionCost, stats :
              IF ~present(averageTransactionCost) \/ RatIsZero(get(averageTransactionCost))
              THEN None
              ELSE IF ~present(stats) THEN None
              ELSE IF ~present(get(stats).quota) THEN None
              ELSE Some(RatDiv(quotaField(get(get(stats).quota), opType, "TOTAL"),
                               get(averageTransactionCost))))

getDesiredTps(tag) ==
    minOfPresent(getDesiredTpsForOp(tag, READ), getDesiredTpsForOp(tag, WRITE))

\* getReservedTps(TransactionTag, OpType)
getReservedTpsForOp(tag, opType) ==
    With2(getQuota(tag, opType, "RESERVED"), getAverageTransactionCost(tag, opType),
          LAMBDA reservedCost, averageTransactionCost :
              IF ~present(reservedCost) \/ ~present(averageTransactionCost)
                 \/ RatIsZero(get(averageTransactionCost))
              THEN None
              ELSE Some(RatDiv(get(reservedCost), get(averageTransactionCost))))

\* the smaller side is taken
getReservedTpsMinOfSides(tag) ==
    minOfPresent(getReservedTpsForOp(tag, READ), getReservedTpsForOp(tag, WRITE))

getReservedTps(tag) ==
    maxOfPresent(getReservedTpsForOp(tag, READ), getReservedTpsForOp(tag, WRITE))

EmptyMap == <<>>

(***************************************************************************)
(* Faulty variants of the operators below, used to show that the           *)
(* properties proved of getClientRates depend on them.                     *)
(***************************************************************************)
\* the limiting rate is not allowed to lower the desired rate
targetTpsMaxOfAll(reserved, limiting, desired) ==
    RatMax(reserved, RatMax(limiting, desired))

\* the reserved floor is forgotten
targetTpsWithoutReserved(reserved, limiting, desired) ==
    RatMin(limiting, desired)

\* What updateAndGetPerClientLimit gives once perClientRate is updated
publishedLimit(updated) ==
    [limit |-> Some([tpsRate |-> getTotal(updated.perClientRate),
                     expiration |-> "NO_EXPIRATION"]),
     stats |-> updated]

\* the per-client rate is not raised to GLOBAL_TAG_THROTTLING_MIN_RATE
updateAndGetPerClientLimitWithoutMinRate(stats, targetCost) ==
    IF present(targetCost) /\ RatLT(RatInt(0), smoothRate(stats.transactionCounter))
    THEN publishedLimit(
             [stats EXCEPT !.perClientRate =
                 setTotal(@, RatMin(get(targetCost),
                                    RatMul(RatDiv(get(targetCost),
                                                  smoothRate(stats.transactionCounter)),
                                           smoothTotal(stats.perClientRate))))])
    ELSE [limit |-> None, stats |-> stats]

\* only the DEFAULT entry is written
assignLimitDefaultOnly(result, tag, limit) ==
    [p \in {"DEFAULT"} |-> mapPut(IF p \in DOMAIN result THEN result[p] ELSE EmptyMap, tag, limit)]

\* the change id counts down
decrementChangeId(id) == id - 1

\* the change id is advanced by two per scan
incrementChangeIdTwice(id) == id + 2

\* ++throttledTagChangeId
incrementChangeId(id) == id + 1

\* the new rate is returned and perClientRate is left as it was
updateAndGetPerClientLimitWithoutSetTotal(stats, targetCost) ==
    IF present(targetCost) /\ RatLT(RatInt(0), smoothRate(stats.transactionCounter))
    THEN [limit |-> Some([tpsRate |-> RatMax(RatInt(GLOBAL_TAG_THROTTLING_MIN_RATE),
                                             RatMin(get(targetCost),
                                                    RatMul(RatDiv(get(targetCost),
                                                                  smoothRate(stats.transactionCounter)),
                                                           smoothTotal(stats.perClientRate)))),
                          expiration |-> "NO_EXPIRATION"]),
          stats |-> stats]
    ELSE [limit |-> None, stats |-> stats]

\* PerTagStatistics::updateAndGetPerClientLimit: the limit returned and the
\* statistics as updated
updateAndGetPerClientLimit(stats, targetCost) ==
    IF present(targetCost) /\ RatLT(RatInt(0), smoothRate(stats.transactionCounter))
    THEN publishedLimit(
             [stats EXCEPT !.perClientRate =
                 setTotal(@, RatMax(RatInt(GLOBAL_TAG_THROTTLING_MIN_RATE),
                                    RatMin(get(targetCost),
                                           RatMul(RatDiv(get(targetCost),
                                                         smoothRate(stats.transactionCounter)),
                                                  smoothTotal(stats.perClientRate)))))])
    ELSE [limit |-> None, stats |-> stats]

\* std::max(reservedTps, std::min(limitingTps, desiredTps))
targetTps(reserved, limiting, desired) ==
    RatMax(reserved, RatMin(limiting, desired))

\* result[BATCH][tag] = result[DEFAULT][tag] = limit
assignLimit(result, tag, limit) ==
    [p \in Priorities |-> mapPut(IF p \in DOMAIN result THEN result[p] ELSE EmptyMap, tag, limit)]

\* The body of the loop of getClientRates for the tags `tagSeq` still to visit.
\* limiting[tag] is getLimitingTps(tag).  Yields the returned value (Some(map),
\* or Failed), the tag statistics as the call leaves them, and the targetCost
\* computed for each tag that got one.
RECURSIVE clientRatesLoop(_, _, _, _, _)
clientRatesLoop(tagSeq, limiting, ts, result, targets) ==
    IF tagSeq = <<>> THEN [ret |-> Some(result), stats |-> ts, targets |-> targets]
    ELSE With3(limiting[Head(tagSeq)], getDesiredTps(Head(tagSeq)), getReservedTps(Head(tagSeq)),
           LAMBDA limitingTps, desiredTps, reservedTps :
             IF failed(limitingTps) THEN [ret |-> Failed, stats |-> ts, targets |-> targets]
             ELSE IF ~present(limitingTps) \/ ~present(desiredTps) \/ ~present(reservedTps)
             THEN [ret |-> Some(EmptyMap), stats |-> ts, targets |-> targets]
             ELSE With(targetTps(get(reservedTps), get(limitingTps), get(desiredTps)),
                    LAMBDA targetCost :
                      With(updateAndGetPerClientLimit(ts[Head(tagSeq)], Some(targetCost)),
                        LAMBDA perClientLimit :
                          IF ~present(perClientLimit.limit)
                          THEN [ret |-> Failed,
                                stats |-> mapPut(ts, Head(tagSeq), perClientLimit.stats),
                                targets |-> mapPut(targets, Head(tagSeq), targetCost)]
                          ELSE clientRatesLoop(
                                   Tail(tagSeq), limiting,
                                   mapPut(ts, Head(tagSeq), perClientLimit.stats),
                                   assignLimit(result, Head(tagSeq), get(perClientLimit.limit)),
                                   mapPut(targets, Head(tagSeq), targetCost)))))

getClientRates(tagOrder, limiting) ==
    clientRatesLoop(tagOrder, limiting, tagStatistics, EmptyMap, EmptyMap)

autoThrottleCount == Cardinality(DOMAIN tagStatistics)

(***************************************************************************)
(* The quota range of the database and its values                          *)
(***************************************************************************)
TagQuotaValue(totalRead, totalWrite, reservedRead, reservedWrite) ==
    [totalReadQuota |-> totalRead, totalWriteQuota |-> totalWrite,
     reservedReadQuota |-> reservedRead, reservedWriteQuota |-> reservedWrite]

\* The quotas that setQuota and the quota range are given
QuotaValues == {TagQuotaValue(4, 0, 2, 0), TagQuotaValue(2, 4, 0, 1)}

\* TagQuotaValue::toValue: the four fields as a tuple
toValue(q) == <<q.totalReadQuota, q.totalWriteQuota, q.reservedReadQuota, q.reservedWriteQuota>>

\* TagQuotaValue::fromValue: Failed for a value that is no tuple of four fields
fromValue(v) ==
    IF Len(v) # 4 THEN Failed
    ELSE Some(TagQuotaValue(v[1], v[2], v[3], v[4]))

MalformedValue == <<4, 0>>

\* The values clients store in the quota range
StoredValues == {toValue(TagQuotaValue(4, 0, 2, 0)), MalformedValue}

(***************************************************************************)
(* Inputs of the operations                                                *)
(***************************************************************************)
\* Cost rates a storage server reports for a busy tag
CostValues == {2}

\* Optional<double> ratios the health pipeline publishes
RatioValues == {None, Some(<<1, 2>>)}

\* Values of getLimitingTps(tag) when the limiting stage is left open: absent,
\* or a rate that lies below, between or above a tag's reserved and desired
\* rates depending on its quota and transaction rate
LimitingValues == {None, Some(<<5, 2>>)}

\* Numbers of transactions one addRequests call records
Counts == {2}

\* The lists busiestReadTags / busiestWriteTags: each listed tag with its rate
BusiestTags(S) == [S -> CostValues]

\* The reports of a storage server: one tag read and written, both tags read,
\* one tag written
StorageQueueInfos ==
    [id : Servers, busiestReadTags : BusiestTags({"t1"}), busiestWriteTags : BusiestTags({"t1"})]
    \cup [id : Servers, busiestReadTags : BusiestTags(Tags), busiestWriteTags : BusiestTags({})]
    \cup [id : Servers, busiestReadTags : BusiestTags({}), busiestWriteTags : BusiestTags({"t2"})]

(***************************************************************************)
(* Tenant management (TenantManagement.actor.h): data                      *)
(***************************************************************************)
STANDALONE == "STANDALONE"

METACLUSTER_DATA == "METACLUSTER_DATA"

METACLUSTER_MANAGEMENT == "METACLUSTER_MANAGEMENT"

\* TenantMode values of the tenant_mode configuration key
TenantModes == {"DISABLED", "OPTIONAL_TENANT"}

\* The tenant names clients use, and one in the system key space
TenantNames == {"a", "b"}

InvalidTenantName == "\\xff/c"

TenantIds == {0, 1}

\* Optional<TenantGroupName>
TenantGroups == {None, Some("g")}

\* The values of tenantDataPrefixKey: unset, a subspace that leaves room for
\* the tenant's root prefix, and one that exceeds TENANT_PREFIX_SIZE_LIMIT
\* with it
TenantDataPrefixes == {None, Some("sub"), Some("subspace-too-long")}

\* tenantDataPrefix.size() + ROOT_PREFIX_SIZE > TENANT_PREFIX_SIZE_LIMIT
prefixTooLarge(tenantDataPrefix) == tenantDataPrefix = "subspace-too-long"

\* Number of tenant management steps of the explored runs
MaxTenantSteps == 5

\* A TenantMapEntry as a caller hands it to createTenantTransaction
TenantMapEntry(id, tenantGroup) ==
    [id |-> id, tenantGroup |-> tenantGroup, prefix |-> <<"", id>>,
     tenantState |-> "REGISTERING", assignedCluster |-> Some("dc1")]

\* TenantMapEntry::setSubspace: the prefix is the subspace followed by the id
setSubspace(tenantEntry, subspace) ==
    [tenantEntry EXCEPT !.prefix = <<subspace, tenantEntry.id>>]

\* What a Future<Void> yields when it returns
Void == <<>>

\* An error thrown by a transaction body
Threw(e) == <<e, "thrown">>

\* The renameTenant actor before it is called
RenameIdle ==
    [pc |-> "idle", oldName |-> "", newName |-> "", firstTry |-> TRUE, id |-> -1,
     result |-> None, moves |-> 0]

\* A standalone cluster with tenants enabled and an empty tenant map
InitTenants ==
    /\ tenantMap = EmptyMap
    /\ tenantTombstones = {}
    /\ tenantGroupTenantIndex = {}
    /\ tenantData = {}
    /\ cluster = [clusterType |-> STANDALONE, tenantMode |-> "OPTIONAL_TENANT",
                  tenantDataPrefix |-> None]
    /\ renameActor = RenameIdle
    /\ tenantReturned = None
    /\ tenantSteps = 0

(***************************************************************************)
(* Initial state: GlobalTagThrottlerImpl(db, id), the watcher started      *)
(***************************************************************************)
Init ==
    /\ throttledTagChangeId = 0
    /\ throttlingRatios = EmptyMap
    /\ tagStatistics = EmptyMap
    /\ throughput = EmptyMap
    /\ quotaTable = EmptyMap
    /\ watcher = "getRange"
    /\ returned = None
    /\ limitingTpsSeen = None
    /\ targetCostSeen = EmptyMap
    /\ steps = 0
    /\ InitTenants
    /\ limitingStage = None

\* One more counted step of a run of bounded length
Step == steps < MaxSteps /\ steps' = steps + 1

\* A step that is no getClientRates call
NoCall == returned' = None /\ limitingTpsSeen' = None /\ targetCostSeen' = EmptyMap

(***************************************************************************)
(* Controller operations                                                   *)
(***************************************************************************)
\* the record is replaced by a fresh one holding the quota
setQuotaOnFreshRecord(ts, tag, tagQuotaValue) ==
    mapPut(ts, tag, [NewPerTagStatistics EXCEPT !.quota = Some(tagQuotaValue)])

setQuota(ts, tag, tagQuotaValue) ==
    mapPut(ts, tag, [statsAt(ts, tag) EXCEPT !.quota = Some(tagQuotaValue)])

\* the record is erased with its quota
removeQuotaErasingRecord(ts, tag) ==
    [t \in DOMAIN ts \ {tag} |-> ts[t]]

\* the record is touched but its quota is kept
removeQuotaKeepingQuota(ts, tag) ==
    mapPut(ts, tag, statsAt(ts, tag))

\* a tag without a record gets none
removeQuotaOfTrackedTagOnly(ts, tag) ==
    IF tag \in DOMAIN ts THEN mapPut(ts, tag, [statsAt(ts, tag) EXCEPT !.quota = None]) ELSE ts

removeQuota(ts, tag) ==
    mapPut(ts, tag, [statsAt(ts, tag) EXCEPT !.quota = None])

addRequests(ts, tag, count) ==
    mapPut(ts, tag, [statsAt(ts, tag) EXCEPT !.transactionCounter = addDelta(@, RatInt(count))])

\* throughput[ss.id][tag].updateCost(rate, opType) for every listed tag
updateCosts(tp, id, busiest, opType) ==
    IF DOMAIN busiest = {} THEN tp
    ELSE LET old == IF id \in DOMAIN tp THEN tp[id] ELSE EmptyMap
             new == [t \in DOMAIN old \cup DOMAIN busiest |->
                        IF t \in DOMAIN busiest
                        THEN updateCost(IF t \in DOMAIN old THEN old[t] ELSE NewThroughputCounters,
                                        RatInt(busiest[t]), opType)
                        ELSE old[t]]
         IN mapPut(tp, id, new)

tryUpdateAutoThrottling(tp, ss) ==
    updateCosts(updateCosts(tp, ss.id, ss.busiestReadTags, READ),
                ss.id, ss.busiestWriteTags, WRITE)

SetQuota(tag, q) ==
    /\ Step
    /\ tagStatistics' = setQuota(tagStatistics, tag, q)
    /\ NoCall
    /\ UNCHANGED <<throttledTagChangeId, throttlingRatios, throughput, quotaTable, watcher>>
    /\ UNCHANGED <<tenantVars, stageVars>>

RemoveQuota(tag) ==
    /\ Step
    /\ tagStatistics' = removeQuota(tagStatistics, tag)
    /\ NoCall
    /\ UNCHANGED <<throttledTagChangeId, throttlingRatios, throughput, quotaTable, watcher>>
    /\ UNCHANGED <<tenantVars, stageVars>>

AddRequests(tag, count) ==
    /\ Step
    /\ tagStatistics' = addRequests(tagStatistics, tag, count)
    /\ NoCall
    /\ UNCHANGED <<throttledTagChangeId, throttlingRatios, throughput, quotaTable, watcher>>
    /\ UNCHANGED <<tenantVars, stageVars>>

SetThrottlingRatio(storageServerId, ratio) ==
    /\ Step
    /\ throttlingRatios' = mapPut(throttlingRatios, storageServerId, ratio)
    /\ NoCall
    /\ UNCHANGED <<throttledTagChangeId, tagStatistics, throughput, quotaTable, watcher>>
    /\ UNCHANGED <<tenantVars, stageVars>>

TryUpdateAutoThrottling(ss) ==
    /\ Step
    /\ throughput' = tryUpdateAutoThrottling(throughput, ss)
    /\ NoCall
    /\ UNCHANGED <<throttledTagChangeId, throttlingRatios, tagStatistics, quotaTable, watcher>>
    /\ UNCHANGED <<tenantVars, stageVars>>

GetClientRates ==
    /\ UNCHANGED steps
    /\ \E ord \in Orders :
        LET limiting == [t \in DOMAIN tagStatistics |-> getLimitingTps(t, ord)]
            r == getClientRates(ord.tags, limiting)
        IN /\ returned' = r.ret
           /\ limitingTpsSeen' = limiting
           /\ targetCostSeen' = r.targets
           /\ tagStatistics' = r.stats
           /\ UNCHANGED <<throttledTagChangeId, throttlingRatios, throughput, quotaTable, watcher>>
    /\ UNCHANGED <<tenantVars, stageVars>>

\* getClientRates with the result of getLimitingTps(tag) left open: any
\* Optional<double> per tag.  The per-server limiting stage is replaced by an
\* arbitrary one; desired and reserved TPS, the target and the per-client
\* limit are computed as above.
GetClientRatesAnyLimiting ==
    /\ UNCHANGED steps
    /\ \E tagOrder \in Perms(DOMAIN tagStatistics), limiting \in [DOMAIN tagStatistics -> LimitingValues] :
        LET r == getClientRates(tagOrder, limiting)
        IN /\ returned' = r.ret
           /\ limitingTpsSeen' = limiting
           /\ targetCostSeen' = r.targets
           /\ tagStatistics' = r.stats
           /\ UNCHANGED <<throttledTagChangeId, throttlingRatios, throughput, quotaTable, watcher>>
    /\ UNCHANGED <<tenantVars, stageVars>>

\* Time passes (much more than the folding time): every smoother's estimate
\* reaches its total.
Elapse ==
    /\ UNCHANGED steps
    /\ tagStatistics' = [t \in DOMAIN tagStatistics |->
                            [tagStatistics[t] EXCEPT !.transactionCounter = relax(@),
                                                     !.perClientRate = relax(@)]]
    /\ throughput' = [s \in DOMAIN throughput |->
                         [t \in DOMAIN throughput[s] |->
                             [throughput[s][t] EXCEPT !.readCost = relax(@),
                                                      !.writeCost = relax(@)]]]
    /\ NoCall
    /\ UNCHANGED <<throttledTagChangeId, throttlingRatios, quotaTable, watcher>>
    /\ UNCHANGED <<tenantVars, stageVars>>

(***************************************************************************)
(* The quota range, written by clients of the throttling API               *)
(***************************************************************************)
DbSet(tag, value) ==
    /\ Step
    /\ quotaTable' = mapPut(quotaTable, tag, value)
    /\ NoCall
    /\ UNCHANGED <<throttledTagChangeId, throttlingRatios, tagStatistics, throughput, watcher>>
    /\ UNCHANGED <<tenantVars, stageVars>>

DbClear(tag) ==
    /\ Step
    /\ tag \in DOMAIN quotaTable
    /\ quotaTable' = [t \in DOMAIN quotaTable \ {tag} |-> quotaTable[t]]
    /\ NoCall
    /\ UNCHANGED <<throttledTagChangeId, throttlingRatios, tagStatistics, throughput, watcher>>
    /\ UNCHANGED <<tenantVars, stageVars>>

(***************************************************************************)
(* monitorThrottlingChanges                                                *)
(***************************************************************************)
\* The erase condition of the source looks the iterated tag up in the map it
\* is iterated from; seenTags is not read.
removeUnseenTags(ts, seenTags) ==
    LET erased == {tag \in DOMAIN ts : tag \notin DOMAIN ts} IN
    [t \in DOMAIN ts \ erased |-> ts[t]]

\* The loop over the key-values read: [ts, seenTags, ok]; ok is FALSE when
\* fromValue threw, with the entries before it already applied.
RECURSIVE applyCurrentQuotas(_, _, _, _)
applyCurrentQuotas(keys, kvs, ts, seenTags) ==
    IF keys = <<>> THEN [ts |-> ts, seenTags |-> seenTags, ok |-> TRUE]
    ELSE LET tag == Head(keys)
             quota == fromValue(kvs[tag])
         IN IF failed(quota) THEN [ts |-> ts, seenTags |-> seenTags, ok |-> FALSE]
            ELSE applyCurrentQuotas(Tail(keys), kvs, setQuota(ts, tag, get(quota)),
                                    seenTags \cup {tag})

\* a scan ended by a decoding error advances the change id all the same
ScanAdvancingOnError ==
    /\ watcher = "getRange"
    /\ LET r == applyCurrentQuotas(Restrict(TagsInKeyOrder, DOMAIN quotaTable),
                                   quotaTable, tagStatistics, {})
       IN IF r.ok
          THEN /\ tagStatistics' = removeUnseenTags(r.ts, r.seenTags)
               /\ throttledTagChangeId' = incrementChangeId(throttledTagChangeId)
               /\ watcher' = "delay"
          ELSE /\ tagStatistics' = r.ts
               /\ throttledTagChangeId' = incrementChangeId(throttledTagChangeId)
               /\ watcher' = "onError"
    /\ NoCall
    /\ UNCHANGED <<throttlingRatios, throughput, quotaTable>>
    /\ UNCHANGED <<tenantVars, stageVars>>

\* getRange returns: the quotas are applied, unseen tags removed and the
\* change id incremented without yielding; the actor then waits in delay(5.0).
\* A value that fails to decode throws into the catch block.
Scan ==
    /\ watcher = "getRange"
    /\ LET r == applyCurrentQuotas(Restrict(TagsInKeyOrder, DOMAIN quotaTable),
                                   quotaTable, tagStatistics, {})
       IN IF r.ok
          THEN /\ tagStatistics' = removeUnseenTags(r.ts, r.seenTags)
               /\ throttledTagChangeId' = incrementChangeId(throttledTagChangeId)
               /\ watcher' = "delay"
          ELSE /\ tagStatistics' = r.ts
               /\ throttledTagChangeId' = throttledTagChangeId
               /\ watcher' = "onError"
    /\ NoCall
    /\ UNCHANGED <<throttlingRatios, throughput, quotaTable>>
    /\ UNCHANGED <<tenantVars, stageVars>>

WatcherScan == Step /\ Scan

\* getRange throws
WatcherReadError ==
    /\ Step
    /\ watcher = "getRange"
    /\ watcher' = "onError"
    /\ NoCall
    /\ UNCHANGED <<throttledTagChangeId, throttlingRatios, tagStatistics, throughput, quotaTable>>
    /\ UNCHANGED <<tenantVars, stageVars>>

\* tr.onError(e) rethrows: the error leaves the actor, which ends
RetryEndsActor ==
    /\ watcher = "onError"
    /\ watcher' = "ended"
    /\ NoCall
    /\ UNCHANGED <<throttledTagChangeId, throttlingRatios, tagStatistics, throughput, quotaTable>>
    /\ UNCHANGED <<tenantVars, stageVars>>

\* tr.onError(e) returns after its backoff: the inner loop runs again
Retry ==
    /\ watcher = "onError"
    /\ watcher' = "getRange"
    /\ NoCall
    /\ UNCHANGED <<throttledTagChangeId, throttlingRatios, tagStatistics, throughput, quotaTable>>
    /\ UNCHANGED <<tenantVars, stageVars>>

WatcherRetry == Step /\ Retry

\* delay(5.0) returns: break, a new transaction, the next getRange
Delay ==
    /\ watcher = "delay"
    /\ watcher' = "getRange"
    /\ NoCall
    /\ UNCHANGED <<throttledTagChangeId, throttlingRatios, tagStatistics, throughput, quotaTable>>
    /\ UNCHANGED <<tenantVars, stageVars>>

WatcherDelay == Step /\ Delay

Next ==
    \/ \E tag \in Tags, q \in QuotaValues : SetQuota(tag, q)
    \/ \E tag \in Tags : RemoveQuota(tag)
    \/ \E tag \in Tags, count \in Counts : AddRequests(tag, count)
    \/ \E s \in Servers, ratio \in RatioValues : SetThrottlingRatio(s, ratio)
    \/ \E ss \in StorageQueueInfos : TryUpdateAutoThrottling(ss)
    \/ GetClientRates
    \/ Elapse
    \/ \E tag \in Tags, v \in StoredValues : DbSet(tag, v)
    \/ \E tag \in Tags : DbClear(tag)
    \/ WatcherScan
    \/ WatcherReadError
    \/ WatcherRetry
    \/ WatcherDelay

Spec == Init /\ [][Next]_vars

\* The controller as the unit tests drive it (no quota watcher), with the
\* limiting stage left open; the throttling ratios, which only that stage
\* reads, are not published.
NextAnyLimiting ==
    \/ \E tag \in Tags, q \in QuotaValues : SetQuota(tag, q)
    \/ \E tag \in Tags : RemoveQuota(tag)
    \/ \E tag \in Tags, count \in Counts : AddRequests(tag, count)
    \/ \E ss \in StorageQueueInfos : TryUpdateAutoThrottling(ss)
    \/ GetClientRatesAnyLimiting
    \/ Elapse

SpecAnyLimiting == Init /\ [][NextAnyLimiting]_vars

(***************************************************************************)
(* The quota watcher under fair scheduling.  Writes to the quota range and *)
(* failing reads are counted steps, so that every run has finitely many of *)
(* them; the watcher's own steps are not counted and go on for as long as  *)
(* the change id is below MaxChangeId.                                     *)
(***************************************************************************)
MaxChangeId == 3

PollScan == throttledTagChangeId < MaxChangeId /\ Scan /\ UNCHANGED steps

PollRetry == Retry /\ UNCHANGED steps

PollDelay == Delay /\ UNCHANGED steps

NextWatcher ==
    \/ \E tag \in Tags, v \in StoredValues : DbSet(tag, v)
    \/ \E tag \in Tags : DbClear(tag)
    \/ WatcherReadError
    \/ PollScan
    \/ PollRetry
    \/ PollDelay

\* The actor is scheduled whenever the future it waits for is ready
SpecWatcher ==
    /\ Init
    /\ [][NextWatcher]_vars
    /\ WF_vars(PollScan)
    /\ WF_vars(PollRetry)
    /\ WF_vars(PollDelay)

(***************************************************************************)
(* The limiting stage applied on its own.  getLimitingCost never yields a  *)
(* present value (see C25), so within the controller the two functions     *)
(* below are only ever given absent costs; here they are applied to every  *)
(* combination of values their locals can hold.                            *)
(***************************************************************************)
\* Number of servers with a ratio entry
MaxServers == 3

\* What getLimitingTps(id, tag, opType) can yield for one server
PerServerTps == {None, Some(RatInt(1)), Some(RatInt(2)), Some(<<5, 2>>)}

\* The per-server results of up to MaxServers servers, in traversal order
PerServerTpsSeqs == UNION {[1..n -> PerServerTps] : n \in 0..MaxServers}

\* The values of the locals of getLimitingTps(id, tag, opType)
StageQuotaRatios == {Some(RatInt(0)), Some(<<1, 2>>), Some(RatInt(1))}

StageLimitingCosts == {None, Some(RatInt(2)), Some(RatInt(4))}

StageAverageCosts == {None, Some(RatInt(1)), Some(RatInt(2))}

\* getLimitingTps(tag, opType) runs its loop over the per-server results
EvalLimitingTps(targetTpsForSSs) ==
    /\ limitingStage' = Some([fn |-> "getLimitingTps(tag, opType)",
                              inputs |-> targetTpsForSSs,
                              result |-> limitingTpsOver(targetTpsForSSs, None)])
    /\ UNCHANGED <<throttlerVars, tenantVars>>

\* getLimitingTps(id, tag, opType) combines its three locals
EvalLimitingTpsOnServer(quotaRatio, limitingCost, averageTransactionCost) ==
    /\ limitingStage' = Some([fn |-> "getLimitingTps(id, tag, opType)",
                              inputs |-> <<quotaRatio, limitingCost, averageTransactionCost>>,
                              result |-> limitingTpsOf(quotaRatio, limitingCost,
                                                       averageTransactionCost)])
    /\ UNCHANGED <<throttlerVars, tenantVars>>

NextLimitingStage ==
    \/ \E targetTpsForSSs \in PerServerTpsSeqs : EvalLimitingTps(targetTpsForSSs)
    \/ \E quotaRatio \in StageQuotaRatios, limitingCost \in StageLimitingCosts,
          averageTransactionCost \in StageAverageCosts :
           EvalLimitingTpsOnServer(quotaRatio, limitingCost, averageTransactionCost)

SpecLimitingStage == Init /\ [][NextLimitingStage]_vars

(***************************************************************************)
(* Tenant management: the transaction bodies.  A body reads the database   *)
(* as the variables hold it and yields what it returns or throws together  *)
(* with the tenant map, group index and tombstones as its writes leave     *)
(* them.  FoundationDB transactions are strictly serializable, so a        *)
(* committed transaction is one step; a body that throws writes nothing    *)
(* that is committed.                                                      *)
(***************************************************************************)
\* What a body yields when it writes nothing
NoWrites(ret) ==
    [ret |-> ret, tenantMap |-> tenantMap, index |-> tenantGroupTenantIndex,
     tombstones |-> tenantTombstones]

\* checkTenantMode: the error thrown, or None
checkTenantMode(expectedClusterType) ==
    IF cluster.clusterType # expectedClusterType THEN Threw("invalid_metacluster_operation")
    ELSE IF cluster.clusterType = STANDALONE /\ cluster.tenantMode = "DISABLED"
    THEN Threw("tenants_disabled")
    ELSE None

\* tr->getRange(prefixRange(prefix), 1) is not empty
hasData(prefix) == prefix \in tenantData

\* The tenant map entry created: READY, assigned to no cluster
readyEntry(tenantEntry) ==
    [tenantEntry EXCEPT !.tenantState = "READY", !.assignedCluster = None]

\* tenantGroupTenantIndex.insert when the entry has a group
indexInsert(index, tenantEntry, name) ==
    IF present(tenantEntry.tenantGroup)
    THEN index \cup {<<get(tenantEntry.tenantGroup), name>>}
    ELSE index

\* tenantGroupTenantIndex.erase when the entry has a group
indexErase(index, tenantEntry, name) ==
    IF present(tenantEntry.tenantGroup)
    THEN index \ {<<get(tenantEntry.tenantGroup), name>>}
    ELSE index

\* The end of createTenantTransaction, for the entry with its subspace set
writeNewTenant(name, tenantEntry) ==
    IF hasData(tenantEntry.prefix) THEN NoWrites(Threw("tenant_prefix_allocator_conflict"))
    ELSE [ret |-> Some(<<Some(readyEntry(tenantEntry)), TRUE>>),
          tenantMap |-> mapPut(tenantMap, name, readyEntry(tenantEntry)),
          index |-> indexInsert(tenantGroupTenantIndex, tenantEntry, name),
          tombstones |-> tenantTombstones]

createTenantTransaction(name, tenantEntry, clusterType) ==
    IF clusterType = METACLUSTER_MANAGEMENT \/ tenantEntry.id < 0 THEN NoWrites(Failed)
    ELSE IF name = InvalidTenantName THEN NoWrites(Threw("invalid_tenant_name"))
    ELSE IF failed(checkTenantMode(clusterType)) THEN NoWrites(checkTenantMode(clusterType))
    ELSE IF present(mapGet(tenantMap, name))
    THEN NoWrites(Some(<<mapGet(tenantMap, name), FALSE>>))
    ELSE IF tenantEntry.id \in tenantTombstones THEN NoWrites(Some(<<None, FALSE>>))
    ELSE IF clusterType = STANDALONE
    THEN IF present(cluster.tenantDataPrefix) /\ prefixTooLarge(get(cluster.tenantDataPrefix))
         THEN NoWrites(Threw("client_invalid_operation"))
         ELSE writeNewTenant(name, setSubspace(tenantEntry, orDefault(cluster.tenantDataPrefix, "")))
    ELSE writeNewTenant(name, setSubspace(tenantEntry, ""))

\* The erasing branch of deleteTenantTransaction, for the entry found
eraseTenant(name, tenantEntry, tenantId, clusterType) ==
    IF hasData(tenantEntry.prefix) THEN NoWrites(Threw("tenant_not_empty"))
    ELSE [ret |-> Some(Void),
          tenantMap |-> [n \in DOMAIN tenantMap \ {name} |-> tenantMap[n]],
          index |-> indexErase(tenantGroupTenantIndex, tenantEntry, name),
          tombstones |-> IF clusterType = METACLUSTER_DATA
                         THEN tenantTombstones \cup {get(tenantId)}
                         ELSE tenantTombstones]

deleteTenantTransaction(name, tenantId, clusterType) ==
    IF ~(clusterType = STANDALONE \/ present(tenantId)) \/ clusterType = METACLUSTER_MANAGEMENT
    THEN NoWrites(Failed)
    ELSE IF failed(checkTenantMode(clusterType)) THEN NoWrites(checkTenantMode(clusterType))
    ELSE IF /\ present(mapGet(tenantMap, name))
            /\ (~present(tenantId) \/ tenantMap[name].id = get(tenantId))
    THEN eraseTenant(name, tenantMap[name], tenantId, clusterType)
    ELSE NoWrites(Some(Void))

\* The writes of renameTenant: erase oldName, set newName to the old entry
moveTenant(tm, oldName, newName) ==
    [n \in (DOMAIN tm \ {oldName}) \cup {newName} |->
        IF n = newName THEN tm[oldName] ELSE tm[n]]

(***************************************************************************)
(* Tenant management: steps                                                *)
(***************************************************************************)
\* One more tenant management step of a run of bounded length
TenantStep == tenantSteps < MaxTenantSteps /\ tenantSteps' = tenantSteps + 1

\* The transaction that ran a body commits: its writes reach the database
Commit(r) ==
    /\ tenantMap' = r.tenantMap
    /\ tenantGroupTenantIndex' = r.index
    /\ tenantTombstones' = r.tombstones
    /\ tenantReturned' = r.ret

\* A transaction that runs createTenantTransaction and commits
CreateTenantTransaction(name, tenantEntry, clusterType) ==
    /\ TenantStep
    /\ Commit(createTenantTransaction(name, tenantEntry, clusterType))
    /\ UNCHANGED <<tenantData, cluster, renameActor>>
    /\ UNCHANGED <<throttlerVars, stageVars>>

\* A transaction that runs deleteTenantTransaction and commits
DeleteTenantTransaction(name, tenantId, clusterType) ==
    /\ TenantStep
    /\ Commit(deleteTenantTransaction(name, tenantId, clusterType))
    /\ UNCHANGED <<tenantData, cluster, renameActor>>
    /\ UNCHANGED <<throttlerVars, stageVars>>

\* The cluster is registered as a data cluster of a metacluster, or not
RegisterCluster(clusterType) ==
    /\ TenantStep
    /\ cluster' = [cluster EXCEPT !.clusterType = clusterType]
    /\ tenantReturned' = None
    /\ UNCHANGED <<tenantMap, tenantTombstones, tenantGroupTenantIndex, tenantData, renameActor>>
    /\ UNCHANGED <<throttlerVars, stageVars>>

\* tenant_mode is configured
ConfigureTenantMode(tenantMode) ==
    /\ TenantStep
    /\ cluster' = [cluster EXCEPT !.tenantMode = tenantMode]
    /\ tenantReturned' = None
    /\ UNCHANGED <<tenantMap, tenantTombstones, tenantGroupTenantIndex, tenantData, renameActor>>
    /\ UNCHANGED <<throttlerVars, stageVars>>

\* tenantDataPrefixKey is written
SetTenantDataPrefix(tenantDataPrefix) ==
    /\ TenantStep
    /\ cluster' = [cluster EXCEPT !.tenantDataPrefix = tenantDataPrefix]
    /\ tenantReturned' = None
    /\ UNCHANGED <<tenantMap, tenantTombstones, tenantGroupTenantIndex, tenantData, renameActor>>
    /\ UNCHANGED <<throttlerVars, stageVars>>

\* A client writes a key in the tenant `name`
PutData(name) ==
    /\ TenantStep
    /\ name \in DOMAIN tenantMap
    /\ tenantData' = tenantData \cup {tenantMap[name].prefix}
    /\ tenantReturned' = None
    /\ UNCHANGED <<tenantMap, tenantTombstones, tenantGroupTenantIndex, cluster, renameActor>>
    /\ UNCHANGED <<throttlerVars, stageVars>>

\* The keys under a tenant prefix are cleared
ClearData(prefix) ==
    /\ TenantStep
    /\ prefix \in tenantData
    /\ tenantData' = tenantData \ {prefix}
    /\ tenantReturned' = None
    /\ UNCHANGED <<tenantMap, tenantTombstones, tenantGroupTenantIndex, cluster, renameActor>>
    /\ UNCHANGED <<throttlerVars, stageVars>>

\* Another client's renameTenant, committed on its first attempt
OtherRename(oldName, newName) ==
    /\ TenantStep
    /\ oldName \in DOMAIN tenantMap
    /\ newName \notin DOMAIN tenantMap
    /\ tenantMap' = moveTenant(tenantMap, oldName, newName)
    /\ tenantReturned' = None
    /\ UNCHANGED <<tenantTombstones, tenantGroupTenantIndex, tenantData, cluster, renameActor>>
    /\ UNCHANGED <<throttlerVars, stageVars>>

(***************************************************************************)
(* renameTenant(db, oldName, newName): one actor and its retry loop        *)
(***************************************************************************)
\* What one attempt decides after reading oldEntry and newEntry: an error to
\* throw, "return", "assert" (the ASSERT of the retry branch fails) or "write"
renameDecision(oldEntry, newEntry, firstTry, id) ==
    IF firstTry
    THEN IF ~present(oldEntry) THEN "tenant_not_found"
         ELSE IF present(newEntry) THEN "tenant_already_exists"
         ELSE "write"
    ELSE IF present(newEntry)
         THEN IF id = get(newEntry).id
              THEN IF ~present(oldEntry) \/ get(oldEntry).id # id THEN "return" ELSE "assert"
              ELSE "tenant_already_exists"
         ELSE IF ~present(oldEntry) THEN "tenant_not_found"
         ELSE IF id # get(oldEntry).id THEN "tenant_not_found"
         ELSE "write"

\* The decision of the attempt the actor would make now
Decision ==
    renameDecision(mapGet(tenantMap, renameActor.oldName), mapGet(tenantMap, renameActor.newName),
                   renameActor.firstTry, renameActor.id)

\* The actor after an attempt that got as far as its writes
Attempted(pc, result, moved) ==
    [renameActor EXCEPT !.pc = pc, !.result = result, !.firstTry = FALSE,
                        !.id = tenantMap[renameActor.oldName].id,
                        !.moves = IF moved THEN @ + 1 ELSE @]

\* What a step of the actor leaves alone
RenameFrame ==
    /\ tenantReturned' = None
    /\ UNCHANGED <<tenantTombstones, tenantGroupTenantIndex, tenantData, cluster>>
    /\ UNCHANGED <<throttlerVars, stageVars>>

RenameStart(oldName, newName) ==
    /\ TenantStep
    /\ renameActor.pc = "idle"
    /\ oldName # newName
    /\ renameActor' = [RenameIdle EXCEPT !.pc = "running", !.oldName = oldName,
                                         !.newName = newName]
    /\ UNCHANGED tenantMap
    /\ RenameFrame

\* A read of the attempt fails with a retryable error: onError, next attempt
RenameReadFails ==
    /\ TenantStep
    /\ renameActor.pc = "running"
    /\ UNCHANGED <<renameActor, tenantMap>>
    /\ RenameFrame

\* The attempt throws tenant_not_found or tenant_already_exists, or fails its
\* ASSERT: onError rethrows and the actor ends with the error
RenameThrows ==
    /\ TenantStep
    /\ renameActor.pc = "running"
    /\ Decision \notin {"write", "return"}
    /\ renameActor' = [renameActor EXCEPT !.pc = "done",
                           !.result = IF Decision = "assert" THEN Failed ELSE Threw(Decision)]
    /\ UNCHANGED tenantMap
    /\ RenameFrame

\* A retry finds the rename done: return Void()
RenameFoundDone ==
    /\ TenantStep
    /\ renameActor.pc = "running"
    /\ Decision = "return"
    /\ renameActor' = [renameActor EXCEPT !.pc = "done", !.result = Some(Void)]
    /\ UNCHANGED tenantMap
    /\ RenameFrame

\* The attempt writes and its commit succeeds
RenameCommits ==
    /\ TenantStep
    /\ renameActor.pc = "running"
    /\ Decision = "write"
    /\ tenantMap' = moveTenant(tenantMap, renameActor.oldName, renameActor.newName)
    /\ renameActor' = Attempted("done", Some(Void), TRUE)
    /\ RenameFrame

\* The attempt writes, the commit is applied and reports commit_unknown_result
RenameCommitUnknown ==
    /\ TenantStep
    /\ renameActor.pc = "running"
    /\ Decision = "write"
    /\ tenantMap' = moveTenant(tenantMap, renameActor.oldName, renameActor.newName)
    /\ renameActor' = Attempted("running", None, TRUE)
    /\ RenameFrame

\* The attempt writes and the commit fails without being applied
\* (not_committed, or commit_unknown_result of a commit that was lost)
RenameCommitFails ==
    /\ TenantStep
    /\ renameActor.pc = "running"
    /\ Decision = "write"
    /\ renameActor' = Attempted("running", None, FALSE)
    /\ UNCHANGED tenantMap
    /\ RenameFrame

NextTenants ==
    \/ \E name \in TenantNames \cup {InvalidTenantName}, id \in TenantIds, g \in TenantGroups,
          clusterType \in {STANDALONE, METACLUSTER_DATA} :
           CreateTenantTransaction(name, TenantMapEntry(id, g), clusterType)
    \/ \E name \in TenantNames, tenantId \in {None} \cup {Some(i) : i \in TenantIds},
          clusterType \in {STANDALONE, METACLUSTER_DATA} :
           DeleteTenantTransaction(name, tenantId, clusterType)
    \/ \E clusterType \in {STANDALONE, METACLUSTER_DATA} : RegisterCluster(clusterType)
    \/ \E tenantMode \in TenantModes : ConfigureTenantMode(tenantMode)
    \/ \E tenantDataPrefix \in TenantDataPrefixes : SetTenantDataPrefix(tenantDataPrefix)
    \/ \E name \in TenantNames : PutData(name)
    \/ \E prefix \in tenantData : ClearData(prefix)
    \/ \E oldName \in TenantNames, newName \in TenantNames : OtherRename(oldName, newName)
    \/ \E oldName \in TenantNames, newName \in TenantNames : RenameStart(oldName, newName)
    \/ RenameReadFails
    \/ RenameThrows
    \/ RenameFoundDone
    \/ RenameCommits
    \/ RenameCommitUnknown
    \/ RenameCommitFails

SpecTenants == Init /\ [][NextTenants]_vars

(***************************************************************************)
(* Vocabulary of the properties                                            *)
(***************************************************************************)
\* A getClientRates call has just been made (it returned a map or failed)
CallMade == Len(returned) # 0

\* ... and returned a map
MapReturned == present(returned)

\* The tags with a limit under priority p in the map just returned
PublishedTags(p) ==
    IF MapReturned /\ p \in DOMAIN get(returned) THEN DOMAIN get(returned)[p] ELSE {}

\* The TPS limit published for tag t under priority p
PublishedTps(p, t) == get(returned)[p][t].tpsRate

\* The three candidate rates of a tracked tag as the call just made saw them.
\* (The call changes none of their inputs.)
Limiting(t) == limitingTpsSeen[t]

Desired(t) == getDesiredTps(t)

Reserved(t) == getReservedTps(t)

absent(o) == Len(o) = 0

AllPresent(t) == present(Limiting(t)) /\ present(Desired(t)) /\ present(Reserved(t))

SomeAbsent(t) == absent(Limiting(t)) \/ absent(Desired(t)) \/ absent(Reserved(t))

MinRate == RatInt(GLOBAL_TAG_THROTTLING_MIN_RATE)

(***************************************************************************)
(* C1.  All-or-nothing: whenever a tracked tag has an absent limiting,     *)
(* desired or reserved TPS, the getClientRates call returns the empty map. *)
(* Stated as the claim reads; the code violates it: with a ratio published *)
(* for a server without telemetry the call fails instead of returning.     *)
(***************************************************************************)
C1_AllOrNothingReturnsEmptyMap ==
    (CallMade /\ \E t \in DOMAIN tagStatistics : SomeAbsent(t))
        => (MapReturned /\ get(returned) = EmptyMap)

\* max(reserved, min(limiting, desired)) of a tag whose three rates are
\* present, written out by cases
ExpectedTarget(t) ==
    LET r == get(Reserved(t))
        l == get(Limiting(t))
        d == get(Desired(t))
        m == IF RatLE(l, d) THEN l ELSE d
    IN IF RatLE(m, r) THEN r ELSE m

\* The larger of two rates, by cases
Larger(a, b) == IF RatLE(a, b) THEN b ELSE a

Published(t) == \E p \in Priorities : t \in PublishedTags(p)

C4_PublishedAtLeastMinRate ==
    \A p \in Priorities : \A t \in PublishedTags(p) :
        RatLE(RatInt(GLOBAL_TAG_THROTTLING_MIN_RATE), PublishedTps(p, t))

\* A limit published for a tag whose previous smoothed per-client value is
\* zero: min(target, target / rate * 0) = 0 is raised to the minimum rate
C4_Witness_RaisedToMinRate ==
    \E p \in Priorities : \E t \in PublishedTags(p) :
        /\ RatIsZero(smoothTotal(tagStatistics[t].perClientRate))
        /\ PublishedTps(p, t) = RatInt(GLOBAL_TAG_THROTTLING_MIN_RATE)

\* No server has a present throttling ratio (all healthy, or none known)
NoRatioPresent == \A s \in DOMAIN throttlingRatios : ~present(throttlingRatios[s])

\* Tag t has a cost record on some storage server
HasTelemetry(t) == \E s \in DOMAIN throughput : t \in DOMAIN throughput[s]

\* Tag t has a quota, arrivals and telemetry, and with them a desired and a
\* reserved rate
Demanding(t) ==
    /\ present(tagStatistics[t].quota)
    /\ RatLT(RatInt(0), getTransactionRate(tagStatistics[t]))
    /\ HasTelemetry(t)
    /\ present(Desired(t))
    /\ present(Reserved(t))

(***************************************************************************)
(* C5.  As the claim reads: when no server has a present throttling ratio, *)
(* a getClientRates call over tags that all have a quota, arrivals and     *)
(* telemetry publishes a limit for each of them, computed from the desired *)
(* rate (the limiting stage imposing nothing).  The code violates it: the  *)
(* absent limiting rate makes the call return the empty map.               *)
(***************************************************************************)
C5_HealthyServersStillPublishDesired ==
    (/\ CallMade
     /\ NoRatioPresent
     /\ DOMAIN tagStatistics # {}
     /\ \A t \in DOMAIN tagStatistics : Demanding(t))
        => /\ MapReturned
           /\ \A t \in DOMAIN tagStatistics :
                  /\ Published(t)
                  /\ t \in DOMAIN targetCostSeen
                  /\ targetCostSeen[t] = Larger(get(Reserved(t)), get(Desired(t)))

(***************************************************************************)
(* C6.  The map getClientRates returns has identical BATCH and DEFAULT     *)
(* entries: it is empty, or it has both priorities with the same tags and  *)
(* the same limits.                                                        *)
(***************************************************************************)
C6_BatchAndDefaultIdentical ==
    MapReturned =>
        \/ DOMAIN get(returned) = {}
        \/ /\ DOMAIN get(returned) = Priorities
           /\ get(returned)["BATCH"] = get(returned)["DEFAULT"]

\* A non-empty map was returned, with a limit above the minimum rate
C6_Witness_LimitUnderBothPriorities ==
    /\ MapReturned
    /\ \E t \in Tags :
           /\ t \in PublishedTags("BATCH") \cap PublishedTags("DEFAULT")
           /\ RatLT(MinRate, PublishedTps("BATCH", t))
           /\ PublishedTps("BATCH", t) = PublishedTps("DEFAULT", t)

\* A scan of the quota watcher completes in this step: getRange returned,
\* every value decoded, and the actor reached its delay
ScanCompletes == watcher = "getRange" /\ watcher' = "delay"

(***************************************************************************)
(* C7.  As the claim reads: after every completed watcher scan each tag's  *)
(* quota is the decoded table value if the scan returned its key, and      *)
(* cleared if the tag is not in the table, whoever set it before.  The     *)
(* code violates the second half: removeUnseenTags removes nothing and no  *)
(* quota is cleared.                                                       *)
(***************************************************************************)
C7_ScanMakesQuotasMatchTable ==
    [][ScanCompletes =>
          \A t \in DOMAIN tagStatistics' :
              tagStatistics'[t].quota =
                  IF t \in DOMAIN quotaTable THEN fromValue(quotaTable[t]) ELSE None]_vars

(***************************************************************************)
(* C8.  As the claim reads: a record whose quota is cleared and that has   *)
(* no telemetry (no arrivals, no cost record) is destroyed by the next     *)
(* completed watcher scan: the tag is no longer a key of the statistics    *)
(* and no longer counted by autoThrottleCount.  The code violates it.      *)
(***************************************************************************)
C8_ScanDestroysIdleRecords ==
    [][ScanCompletes =>
          \A t \in DOMAIN tagStatistics :
              (/\ absent(tagStatistics[t].quota)
               /\ RatIsZero(getTotal(tagStatistics[t].transactionCounter))
               /\ ~HasTelemetry(t)
               /\ t \notin DOMAIN quotaTable)
                  => /\ t \notin DOMAIN tagStatistics'
                     /\ autoThrottleCount' <=
                            Cardinality((DOMAIN tagStatistics \cup DOMAIN quotaTable) \ {t})]_vars

(***************************************************************************)
(* C9.  As the claim reads: after setQuota(t, q), removeQuota(t) and one   *)
(* reconcile, t has no quota and no record.  The record that setQuota then *)
(* removeQuota leave is the default-constructed one; the claim is that a   *)
(* completed scan that does not return t's key leaves no record of t.  The *)
(* code violates it.                                                       *)
(***************************************************************************)
C9_RoundTripLeavesNoRecord ==
    [][ScanCompletes =>
          \A t \in DOMAIN tagStatistics :
              (tagStatistics[t] = NewPerTagStatistics /\ t \notin DOMAIN quotaTable)
                  => t \notin DOMAIN tagStatistics']_vars

(***************************************************************************)
(* C10.  The value getThrottledTagChangeId returns never decreases.        *)
(***************************************************************************)
C10_ChangeIdNeverDecreases ==
    [][throttledTagChangeId' >= throttledTagChangeId]_vars

\* Two scans have completed: the change id has been incremented twice
C10_Witness_TwoScansCompleted ==
    throttledTagChangeId >= 2 /\ watcher = "delay"

(***************************************************************************)
(* C11.  The change id is incremented by exactly one by a step in which    *)
(* the quota watcher completes a scan, and is left unchanged by every      *)
(* other step: a scan attempt that ends in an error (getRange throws, or a *)
(* value fails to decode), the watcher's retry and delay, setQuota,        *)
(* removeQuota, addRequests, setThrottlingRatio, tryUpdateAutoThrottling   *)
(* and getClientRates.                                                     *)
(***************************************************************************)
C11_ChangeIdCountsCompletedScans ==
    [][IF ScanCompletes
       THEN throttledTagChangeId' = throttledTagChangeId + 1
       ELSE throttledTagChangeId' = throttledTagChangeId]_vars

\* A scan has completed and a later scan attempt has ended in an error: the
\* change id counts the completed scan only
C11_Witness_FailedScanAfterCompletedScan ==
    watcher = "onError" /\ throttledTagChangeId = 1

\* Tag t is tracked and has no quota
WithoutQuota(t) == t \in DOMAIN tagStatistics /\ absent(tagStatistics[t].quota)

(***************************************************************************)
(* C12.  removeQuota(t) leaves t tracked without a quota, and as long as a *)
(* tracked tag has no quota (until a quota is set for it again) no         *)
(* getClientRates call reports a limit for it, whatever limit was          *)
(* published for it before and whatever its arrivals and telemetry are.    *)
(***************************************************************************)
C12_NoLimitAfterRemoveQuota ==
    [][\A t \in Tags :
          /\ RemoveQuota(t) => WithoutQuota(t)'
          /\ WithoutQuota(t)' => ~Published(t)']_vars

\* A call made after removeQuota(t), for a tag that had a limit published
\* (its per-client rate has been set) and still has arrivals and telemetry,
\* returns a map without t
C12_Witness_CallAfterRemoveQuota ==
    /\ MapReturned
    /\ \E t \in Tags :
           /\ WithoutQuota(t)
           /\ RatLE(MinRate, getTotal(tagStatistics[t].perClientRate))
           /\ RatLT(RatInt(0), getTransactionRate(tagStatistics[t]))
           /\ HasTelemetry(t)
           /\ ~Published(t)

\* The storage servers the controller knows of
ParticipatingServers == DOMAIN throttlingRatios \cup DOMAIN throughput

\* The cost levels reported for tag t have been held for long: on every
\* server the smoothed costs of t have reached the reported levels, and some
\* cost is positive
SteadyTelemetry(t) ==
    /\ \A s \in ParticipatingServers :
           /\ s \in DOMAIN throughput
           /\ t \in DOMAIN throughput[s]
           /\ smoothTotal(throughput[s][t].readCost) = getTotal(throughput[s][t].readCost)
           /\ smoothTotal(throughput[s][t].writeCost) = getTotal(throughput[s][t].writeCost)
    /\ \E s \in ParticipatingServers :
           RatLT(RatInt(0), getCost(throughput[s][t], READ))

(***************************************************************************)
(* C13.  As the claim reads, at the steady state of its scenario: a single *)
(* tracked tag with a total quota, arrivals at a positive rate, telemetry  *)
(* for the tag reported by every storage server and held constant, and a   *)
(* throttling ratio published for every storage server.  A getClientRates  *)
(* call then returns a limit for the tag.  The code violates it: no call   *)
(* returns a limit.                                                        *)
(***************************************************************************)
C13_SteadyClientGetsLimit ==
    \A t \in Tags :
        (/\ CallMade
         /\ DOMAIN tagStatistics = {t}
         /\ present(tagStatistics[t].quota)
         /\ get(tagStatistics[t].quota).totalReadQuota > 0
         /\ RatLT(RatInt(0), getTransactionRate(tagStatistics[t]))
         /\ ParticipatingServers # {}
         /\ DOMAIN throttlingRatios = ParticipatingServers
         /\ SteadyTelemetry(t))
            => (MapReturned /\ Published(t))

\* The total quota of tag t for opType, 0 without a quota
OwnTotalQuota(t, opType) == orDefault(getQuota(t, opType, "TOTAL"), RatInt(0))

\* The sum of the total quotas for opType of the tags of the set S
RECURSIVE SumOfTotalQuotas(_, _)
SumOfTotalQuotas(S, opType) ==
    IF S = {} THEN RatInt(0)
    ELSE LET t == CHOOSE x \in S : TRUE
         IN RatAdd(OwnTotalQuota(t, opType), SumOfTotalQuotas(S \ {t}, opType))

(***************************************************************************)
(* C14.  As the claim reads: for a tag with a cost record on a storage     *)
(* server, getQuotaRatio(tag, server, op) is the tag's own total quota for *)
(* op divided by the sum of the total quotas for op of all tags with a     *)
(* cost record on that server (whenever that sum is positive), in every    *)
(* traversal order of the maps.  The code violates it: it returns the      *)
(* share of the tag traversed last, whichever tag is asked for.            *)
(***************************************************************************)
C14_QuotaRatioIsOwnShare ==
    \A s \in DOMAIN throughput : \A t \in DOMAIN throughput[s] :
        \A opType \in OpTypes : \A ord \in Orders :
            RatLT(RatInt(0), SumOfTotalQuotas(DOMAIN throughput[s], opType))
                => getQuotaRatio(t, s, opType, ord) =
                       Some(RatDiv(OwnTotalQuota(t, opType),
                                   SumOfTotalQuotas(DOMAIN throughput[s], opType)))


\* The records of every tag but `tag` are the same before and after the step
OtherTagsUnchanged(tag) ==
    \A o \in Tags \ {tag} :
        /\ o \in DOMAIN tagStatistics' <=> o \in DOMAIN tagStatistics
        /\ o \in DOMAIN tagStatistics => tagStatistics'[o] = tagStatistics[o]

\* The transaction counter and the per-client rate of `tag` are those it had
\* (those of a new record when it had none)
CountersKept(tag) ==
    /\ tagStatistics'[tag].transactionCounter = statsAt(tagStatistics, tag).transactionCounter
    /\ tagStatistics'[tag].perClientRate = statsAt(tagStatistics, tag).perClientRate

(***************************************************************************)
(* C15.  setQuota(tag, q) leaves the tag tracked with quota exactly q,     *)
(* whether or not it had a record or an older quota, and changes nothing   *)
(* else: the tag's transaction counter and per-client rate, the records of *)
(* the other tags, the throughput table, the throttling ratios and the     *)
(* change id are as before.                                                *)
(***************************************************************************)
C15_SetQuotaSetsOnlyTheQuota ==
    [][\A tag \in Tags, q \in QuotaValues :
          SetQuota(tag, q) =>
              /\ tag \in DOMAIN tagStatistics'
              /\ tagStatistics'[tag].quota = Some(q)
              /\ CountersKept(tag)
              /\ OtherTagsUnchanged(tag)
              /\ UNCHANGED <<throughput, throttlingRatios, throttledTagChangeId>>]_vars

\* Three operations only: t1 and t2 have recorded transactions and t1 holds
\* a quota, so setQuota(t1) acted next to counters it had to keep
C15_Witness_QuotaSetNextToCounters ==
    /\ steps = 3
    /\ DOMAIN tagStatistics = {"t1", "t2"}
    /\ tagStatistics["t1"].quota = Some(TagQuotaValue(2, 4, 0, 1))
    /\ getTotal(tagStatistics["t1"].transactionCounter) = RatInt(2)
    /\ getTotal(tagStatistics["t2"].transactionCounter) = RatInt(2)
    /\ absent(tagStatistics["t2"].quota)


(***************************************************************************)
(* C16.  removeQuota(tag) on a tracked tag clears only the quota: the      *)
(* record stays, with its transaction counter and per-client rate, the     *)
(* records of the other tags are as before, and the tag stays tracked at   *)
(* least until the watcher next completes a scan.                          *)
(***************************************************************************)
C16_RemoveQuotaKeepsTheRecord ==
    [][\A tag \in DOMAIN tagStatistics :
          /\ RemoveQuota(tag) =>
                 /\ tag \in DOMAIN tagStatistics'
                 /\ absent(tagStatistics'[tag].quota)
                 /\ CountersKept(tag)
                 /\ OtherTagsUnchanged(tag)
          /\ ~ScanCompletes => tag \in DOMAIN tagStatistics']_vars

\* t1 has recorded transactions and no quota, t2 holds its quota, and the
\* watcher has completed no scan
C16_Witness_QuotaRemovedNextToCounters ==
    /\ steps = 4
    /\ throttledTagChangeId = 0
    /\ DOMAIN tagStatistics = {"t1", "t2"}
    /\ absent(tagStatistics["t1"].quota)
    /\ getTotal(tagStatistics["t1"].transactionCounter) = RatInt(2)
    /\ tagStatistics["t2"].quota = Some(TagQuotaValue(4, 0, 2, 0))
    /\ getTotal(tagStatistics["t2"].transactionCounter) = RatInt(0)


\* The counter of (server, tag, operation type) in the table tp; a counter
\* not yet created reads as a new one
CounterOf(tp, s, t, opType) ==
    With(IF s \in DOMAIN tp /\ t \in DOMAIN tp[s] THEN tp[s][t] ELSE NewThroughputCounters,
         LAMBDA c : IF opType = READ THEN c.readCost ELSE c.writeCost)

\* The tags the report ss lists for the operation type
Listed(ss, opType) ==
    IF opType = READ THEN ss.busiestReadTags ELSE ss.busiestWriteTags

(***************************************************************************)
(* C17.  tryUpdateAutoThrottling(ss) sets the read (write) cost of         *)
(* (ss.id, tag) to the reported rate for every tag listed as busy reader   *)
(* (writer), creating the counters on a first report; the counter of every *)
(* (server, tag, operation type) not listed is as before; tag statistics   *)
(* (the quotas), throttling ratios and change id are untouched.  No step   *)
(* of the program removes a counter.                                       *)
(***************************************************************************)
C17_TelemetrySetsListedCostsOnly ==
    [][/\ \A ss \in StorageQueueInfos :
            TryUpdateAutoThrottling(ss) =>
                /\ \A opType \in OpTypes : \A t \in DOMAIN Listed(ss, opType) :
                       /\ ss.id \in DOMAIN throughput'
                       /\ t \in DOMAIN throughput'[ss.id]
                       /\ getTotal(CounterOf(throughput', ss.id, t, opType))
                              = RatInt(Listed(ss, opType)[t])
                /\ \A s \in Servers, t \in Tags, opType \in OpTypes :
                       ~(s = ss.id /\ t \in DOMAIN Listed(ss, opType))
                           => CounterOf(throughput', s, t, opType)
                                  = CounterOf(throughput, s, t, opType)
                /\ UNCHANGED <<tagStatistics, throttlingRatios, throttledTagChangeId>>
       /\ \A s \in DOMAIN throughput :
            /\ s \in DOMAIN throughput'
            /\ DOMAIN throughput[s] \subseteq DOMAIN throughput'[s]]_vars

\* s1 reported t1 as reader and writer and then both tags as readers only:
\* t1 keeps its write cost next to the counters created for t2; s2 reported
\* t2 as writer
C17_Witness_SecondReportKeepsUnlisted ==
    /\ steps = 3
    /\ DOMAIN throughput = {"s1", "s2"}
    /\ DOMAIN throughput["s1"] = {"t1", "t2"}
    /\ getTotal(throughput["s1"]["t1"].readCost) = RatInt(2)
    /\ getTotal(throughput["s1"]["t1"].writeCost) = RatInt(2)
    /\ getTotal(throughput["s1"]["t2"].readCost) = RatInt(2)
    /\ getTotal(throughput["s1"]["t2"].writeCost) = RatInt(0)
    /\ DOMAIN throughput["s2"] = {"t2"}
    /\ getTotal(throughput["s2"]["t2"].writeCost) = RatInt(2)


(***************************************************************************)
(* C18.  Server ids are accepted unseen: whatever servers setThrottlingRatio *)
(* and tryUpdateAutoThrottling were called for, every getClientRates call  *)
(* returns a map and fails no assertion, in particular with a ratio        *)
(* published for a server that never reported telemetry.  Stated as the    *)
(* claim reads; the code violates it: getLimitingCost reads the absent     *)
(* current cost of such a server.                                          *)
(***************************************************************************)
C18_CallsCompleteNormally ==
    CallMade => MapReturned


\* Every value in the quota range decodes
Decodable == \A t \in DOMAIN quotaTable : ~failed(fromValue(quotaTable[t]))

(***************************************************************************)
(* C19.  The quota watcher does not end by itself.  Under fair scheduling, *)
(* after an error it always gets back to reading the quota range, and when *)
(* the reads succeed from some point on (no failing getRange, every value  *)
(* decodable) it goes on completing scans: the change id reaches every     *)
(* value up to MaxChangeId.                                                *)
(***************************************************************************)
C19_WatcherKeepsScanning ==
    /\ (watcher = "onError") ~> (watcher = "getRange")
    /\ (<>[]Decodable) => <>(throttledTagChangeId = MaxChangeId)

\* One counted step and an empty quota range: a getRange failed, and the
\* watcher still completed every scan
C19_Witness_ScansAfterReadError ==
    /\ steps = 1
    /\ quotaTable = EmptyMap
    /\ throttledTagChangeId = MaxChangeId


(***************************************************************************)
(* C20.  A tracked tag with a quota and no cost record on any storage      *)
(* server has an absent desired TPS and an absent limiting TPS, and a      *)
(* getClientRates call publishes no limit for it.  Stated as the claim     *)
(* reads; the code violates it: with a ratio published for a server that   *)
(* has no cost records at all, the limiting TPS is not absent, its         *)
(* evaluation fails.                                                       *)
(***************************************************************************)
C20_NoTelemetryNoLimit ==
    \A t \in DOMAIN tagStatistics :
        (CallMade /\ present(tagStatistics[t].quota) /\ ~HasTelemetry(t))
            => /\ absent(Desired(t))
               /\ absent(Limiting(t))
               /\ ~Published(t)


\* A double that is a number, finite and not negative
FiniteNonNegative(r) == r[2] > 0 /\ r[1] >= 0

\* An Optional<double> that, when present, holds such a number
NoDegenerateValue(o) == present(o) => FiniteNonNegative(get(o))

\* A rate or cost that is zero or negative
NotPositive(r) == ~RatLT(RatInt(0), r)

(***************************************************************************)
(* C21.  Numeric degeneracies yield absent.  For every tracked tag,        *)
(* operation type and server with a ratio entry: a present desired,        *)
(* reserved or per-server limiting TPS is a finite non-negative number;    *)
(* with a transaction rate that is not positive all three are absent; with *)
(* an average transaction cost that is present and not positive, desired   *)
(* and reserved TPS are absent, and so is the per-server limiting TPS when *)
(* the average cost on that server is.  Stated as the claim reads; the     *)
(* code violates it: at transaction rate zero the per-server limiting TPS  *)
(* of a server without cost records is not absent, its evaluation fails.   *)
(***************************************************************************)
C21_DegenerateRatesAreAbsent ==
    \A t \in DOMAIN tagStatistics : \A opType \in OpTypes :
        /\ NoDegenerateValue(getDesiredTpsForOp(t, opType))
        /\ NoDegenerateValue(getReservedTpsForOp(t, opType))
        /\ NotPositive(getTransactionRate(tagStatistics[t])) =>
               /\ absent(getDesiredTpsForOp(t, opType))
               /\ absent(getReservedTpsForOp(t, opType))
        /\ (/\ present(getAverageTransactionCost(t, opType))
            /\ NotPositive(get(getAverageTransactionCost(t, opType)))) =>
               /\ absent(getDesiredTpsForOp(t, opType))
               /\ absent(getReservedTpsForOp(t, opType))
        /\ \A s \in DOMAIN throttlingRatios : \A ord \in Orders :
               /\ NoDegenerateValue(getLimitingTpsOnServer(s, t, opType, ord))
               /\ NotPositive(getTransactionRate(tagStatistics[t])) =>
                      absent(getLimitingTpsOnServer(s, t, opType, ord))
               /\ (/\ present(getAverageTransactionCostOnServer(t, s, opType))
                   /\ NotPositive(get(getAverageTransactionCostOnServer(t, s, opType)))) =>
                      absent(getLimitingTpsOnServer(s, t, opType, ord))


\* The tags with a cost record on server s
TagsOn(s) == IF s \in DOMAIN throughput THEN DOMAIN throughput[s] ELSE {}

\* A traversal order in which the cost records of server s come in order q
\* (the only part of an order that getQuotaRatio reads)
OrderOn(s, q) == [affecting |-> [x \in {s} |-> q]]

(***************************************************************************)
(* C22.  The assertion sumQuota > 0 of getQuotaRatio never fails: for      *)
(* every tag, server, operation type and traversal order the function      *)
(* returns, and whenever the share it returns is positive the sum of the   *)
(* total quotas of the tags with a cost record on the server is positive.  *)
(* (Every quota field a state can hold is non-negative.)                   *)
(***************************************************************************)
C22_SumQuotaAssertionHolds ==
    \A s \in Servers : \A t \in Tags : \A opType \in OpTypes :
        \A q \in Perms(TagsOn(s)) :
            /\ ~failed(getQuotaRatio(t, s, opType, OrderOn(s, q)))
            /\ RatLT(RatInt(0), get(getQuotaRatio(t, s, opType, OrderOn(s, q))))
                   => RatLT(RatInt(0), SumOfTotalQuotas(TagsOn(s), opType))

\* Two tags have cost records on a server, one of them without a quota, and
\* a positive share is returned
C22_Witness_PositiveShareAmongTwoTags ==
    \E s \in DOMAIN throughput : \E t \in Tags : \E ord \in Orders :
        /\ DOMAIN throughput[s] = Tags
        /\ \E u \in Tags : absent(getQuota(u, READ, "TOTAL"))
        /\ RatLT(RatInt(0), get(getQuotaRatio(t, s, READ, ord)))


(***************************************************************************)
(* Vocabulary of the tenant properties                                     *)
(***************************************************************************)
\* The tenant transaction just run returned (it did not throw)
TenantCallReturned == present(tenantReturned)

\* The tenant map, the group index and the tombstones are as before the step
NothingWritten == UNCHANGED <<tenantMap, tenantGroupTenantIndex, tenantTombstones>>

\* Every call of createTenantTransaction the model makes
CreateCalls ==
    [name : TenantNames \cup {InvalidTenantName}, id : TenantIds, tenantGroup : TenantGroups,
     clusterType : {STANDALONE, METACLUSTER_DATA}]

\* The step is the call c of createTenantTransaction
IsCreate(c) ==
    CreateTenantTransaction(c.name, TenantMapEntry(c.id, c.tenantGroup), c.clusterType)

(***************************************************************************)
(* C23.  createTenantTransaction for a name that the tenant map already    *)
(* holds writes nothing and, when it returns, returns an empty optional.   *)
(* Stated as the claim (and the function's comment) reads; the code        *)
(* violates it: the optional returned holds the existing entry.            *)
(***************************************************************************)
C23_ExistingTenantGivesEmptyOptional ==
    [][\A c \in CreateCalls :
          (IsCreate(c) /\ c.name \in DOMAIN tenantMap)
              => /\ NothingWritten
                 /\ TenantCallReturned' => get(tenantReturned')[1] = None]_vars


\* The step is an attempt of the renameTenant actor that read both entries
RenameAttempt ==
    RenameThrows \/ RenameFoundDone \/ RenameCommits \/ RenameCommitUnknown \/ RenameCommitFails

\* The actor is in a retry: an earlier attempt has recorded the id
RenameRetrying == renameActor.pc = "running" /\ ~renameActor.firstTry

\* Name n is mapped to the id the actor recorded on its first attempt
MapsToRecordedId(n) == n \in DOMAIN tenantMap /\ tenantMap[n].id = renameActor.id

\* The actor has just ended with result r
RenameEndsWith(r) == renameActor'.pc = "done" /\ renameActor'.result = r

(***************************************************************************)
(* C24.  However often renameTenant retries, also after commits of unknown *)
(* outcome, its writes move the tenant at most once; a retry that finds    *)
(* newName mapped to the id recorded on the first attempt returns success  *)
(* without writing; one that finds newName mapped to another id fails with *)
(* tenant_already_exists; one that finds newName free and oldName missing  *)
(* or mapped to another id fails with tenant_not_found, without writing.   *)
(* Stated as the claim reads; the code violates it: when the tenant has    *)
(* come back to oldName under its id between two attempts, the retry moves *)
(* it a second time.                                                       *)
(***************************************************************************)
C24_RenameMovesAtMostOnce ==
    [][/\ renameActor'.moves <= 1
       /\ (RenameAttempt /\ RenameRetrying) =>
              /\ MapsToRecordedId(renameActor.newName)
                     => RenameEndsWith(Some(Void)) /\ UNCHANGED tenantMap
              /\ (/\ renameActor.newName \in DOMAIN tenantMap
                  /\ ~MapsToRecordedId(renameActor.newName))
                     => RenameEndsWith(Threw("tenant_already_exists")) /\ UNCHANGED tenantMap
              /\ (/\ renameActor.newName \notin DOMAIN tenantMap
                  /\ ~MapsToRecordedId(renameActor.oldName))
                     => RenameEndsWith(Threw("tenant_not_found")) /\ UNCHANGED tenantMap]_vars


\* Server s has a ratio entry holding a value
RatioPublished(s) ==
    s \in DOMAIN throttlingRatios /\ present(throttlingRatios[s])

(***************************************************************************)
(* C25.  getLimitingCost(server, opType) is the server's throttling ratio  *)
(* times its current cost when the server has a ratio entry holding a      *)
(* value and cost records, and is absent in every other case.  Stated as   *)
(* the claim reads; the code violates it: it returns absent when all three *)
(* are there and fails when only the current cost is missing.              *)
(***************************************************************************)
C25_LimitingCostIsRatioTimesCost ==
    \A s \in Servers : \A opType \in OpTypes :
        IF RatioPublished(s) /\ present(getCurrentCostOnServer(s, opType))
        THEN getLimitingCost(s, opType)
                 = Some(RatMul(get(throttlingRatios[s]),
                               get(getCurrentCostOnServer(s, opType))))
        ELSE getLimitingCost(s, opType) = None

\* The limiting-stage function `fn` has just been applied on its own
StageApplied(fn) == present(limitingStage) /\ get(limitingStage).fn = fn

\* The values held by the present entries of a sequence of optional values
PresentValues(seq) == {get(seq[i]) : i \in {j \in DOMAIN seq : present(seq[j])}}

\* The least of a set of values, absent for the empty set
MinOfValues(S) ==
    IF S = {} THEN None ELSE Some(CHOOSE m \in S : \A x \in S : RatLE(m, x))

QuotaSet(t) == t \in DOMAIN tagStatistics /\ present(tagStatistics[t].quota)

\* The total quota for opType that was last set on tag t
TotalQuotaSet(t, opType) ==
    RatInt(IF opType = READ THEN get(tagStatistics[t].quota).totalReadQuota
           ELSE get(tagStatistics[t].quota).totalWriteQuota)

\* Tag t has an average cost per transaction for opType that one can divide by
CostKnown(t, opType) ==
    /\ present(getAverageTransactionCost(t, opType))
    /\ ~RatIsZero(get(getAverageTransactionCost(t, opType)))

otherOp(opType) == IF opType = READ THEN WRITE ELSE READ

(***************************************************************************)
(* C29.  A tag whose total quota is zero for one operation type and        *)
(* positive for the other has the desired rate of the other type alone,    *)
(* whatever cost it has on the type of quota zero.  Stated as the claim    *)
(* reads; the code violates it: the side of quota zero is a present        *)
(* desired rate of 0 as soon as the tag has cost there, and the minimum    *)
(* of the two sides is 0.                                                  *)
(***************************************************************************)
C29_ZeroTotalQuotaDoesNotConstrain ==
    \A t \in Tags : \A opType \in OpTypes :
        (/\ QuotaSet(t)
         /\ RatIsZero(TotalQuotaSet(t, opType))
         /\ RatLT(RatInt(0), TotalQuotaSet(t, otherOp(opType))))
            => getDesiredTps(t) = getDesiredTpsForOp(t, otherOp(opType))

\* The reserved quota for opType that was last set on tag t
ReservedQuotaSet(t, opType) ==
    RatInt(IF opType = READ THEN get(tagStatistics[t].quota).reservedReadQuota
           ELSE get(tagStatistics[t].quota).reservedWriteQuota)

\* The greatest of a set of values, absent for the empty set
MaxOfValues(S) ==
    IF S = {} THEN None ELSE Some(CHOOSE m \in S : \A x \in S : RatLE(x, m))

(***************************************************************************)
(* C30.  getReservedTps(tag, opType) is the reserved quota for opType that *)
(* the tag's record holds, divided by the tag's average cost per           *)
(* transaction for opType (absent without a quota or such a cost), and     *)
(* getReservedTps(tag) is the greatest of the sides that are present: the  *)
(* present one when there is only one, absent only when both are absent.   *)
(***************************************************************************)
C30_ReservedTpsIsReservedQuotaOverCost ==
    \A t \in Tags :
        /\ \A opType \in OpTypes :
               getReservedTpsForOp(t, opType)
                   = IF QuotaSet(t) /\ CostKnown(t, opType)
                     THEN Some(RatDiv(ReservedQuotaSet(t, opType),
                                      get(getAverageTransactionCost(t, opType))))
                     ELSE None
        /\ getReservedTps(t)
               = MaxOfValues(PresentValues(<<getReservedTpsForOp(t, READ),
                                             getReservedTpsForOp(t, WRITE)>>))

\* A tag with a quota has cost on both sides, and the two sides of its
\* reserved rate differ
C30_Witness_SidesOfReservedTpsDiffer ==
    \E t \in Tags :
        /\ QuotaSet(t) /\ CostKnown(t, READ) /\ CostKnown(t, WRITE)
        /\ getReservedTpsForOp(t, READ) # getReservedTpsForOp(t, WRITE)
        /\ RatLT(RatInt(0), get(getReservedTps(t)))

\* The smaller of two rates, by cases
Smaller(a, b) == IF RatLE(a, b) THEN a ELSE b

\* targetCost / smoothRate * smoothTotal of the record `stats`
ScaledTarget(targetCost, stats) ==
    RatMul(RatDiv(targetCost, smoothRate(stats.transactionCounter)),
           smoothTotal(stats.perClientRate))

\* The per-client level that the claim gives a tag of record `stats` and
\* target targetCost
ExpectedLevel(targetCost, stats) ==
    Larger(MinRate, Smaller(targetCost, ScaledTarget(targetCost, stats)))

\* Tag t has a positive transaction rate
Arriving(t) == RatLT(RatInt(0), smoothRate(tagStatistics[t].transactionCounter))

\* The limit of tag t in the map `ret` returned by a call is tpsRate without
\* expiration, under both priorities
PublishedAs(ret, t, tpsRate) ==
    /\ present(ret)
    /\ \A p \in Priorities :
           /\ p \in DOMAIN get(ret) /\ t \in DOMAIN get(ret)[p]
           /\ get(ret)[p][t] = [tpsRate |-> tpsRate, expiration |-> "NO_EXPIRATION"]

\* Tag t has a target when getLimitingTps(t) is limitingTps: its three rates
\* are present
HasTarget(t, limitingTps) ==
    present(limitingTps) /\ present(Desired(t)) /\ present(Reserved(t))

\* max(reserved, min(limiting, desired)) of tag t, by cases
TargetOf(t, limitingTps) ==
    Larger(get(Reserved(t)), Smaller(get(limitingTps), get(Desired(t))))

ScanEnds == watcher = "getRange" /\ watcher' # "getRange"

(***************************************************************************)
(* C32.  As the claim reads: the state that the watcher leaves when it     *)
(* yields after a scan, which is the state the controller's operations     *)
(* then see, holds the scan wholly or not at all: either every key read    *)
(* has become its tag's quota and the change id has advanced by one, or    *)
(* neither the per-tag records nor the change id have changed.  The code   *)
(* violates it: a value that fails to decode ends the scan after the       *)
(* quotas of the keys before it have been set.                             *)
(***************************************************************************)
C32_ScanIsAppliedWhollyOrNotAtAll ==
    [][ScanEnds =>
          \/ /\ tagStatistics' = tagStatistics
             /\ throttledTagChangeId' = throttledTagChangeId
          \/ /\ throttledTagChangeId' = throttledTagChangeId + 1
             /\ \A t \in DOMAIN quotaTable :
                    /\ t \in DOMAIN tagStatistics'
                    /\ tagStatistics'[t].quota = fromValue(quotaTable[t])]_vars

\* The quota range holds for tag t a value that does not decode
Undecodable(t) == t \in DOMAIN quotaTable /\ failed(fromValue(quotaTable[t]))

(***************************************************************************)
(* C33.  A scan of a quota range holding a value that does not decode ends *)
(* in the error handler, from where the watcher goes back to reading the   *)
(* range.  The failed scan leaves the change id as it was, leaves every    *)
(* tag with such a value its quota (and no record if it had none), and     *)
(* leaves the records of the tags that have no key in the range untouched. *)
(***************************************************************************)
C33_UndecodableValueFailsTheScan ==
    [][/\ (ScanEnds /\ ~Decodable) =>
              /\ watcher' = "onError"
              /\ throttledTagChangeId' = throttledTagChangeId
              /\ \A t \in Tags :
                     Undecodable(t) =>
                         IF t \in DOMAIN tagStatistics
                         THEN /\ t \in DOMAIN tagStatistics'
                              /\ tagStatistics'[t].quota = tagStatistics[t].quota
                         ELSE t \notin DOMAIN tagStatistics'
              /\ \A t \in DOMAIN tagStatistics \ DOMAIN quotaTable :
                     t \in DOMAIN tagStatistics' /\ tagStatistics'[t] = tagStatistics[t]
       /\ (watcher = "onError" /\ watcher' # watcher) => watcher' = "getRange"]_vars

\* A scan has failed on the value of a tag that had a quota, and the tag
\* has kept it
C33_Witness_QuotaKeptAfterFailedScan ==
    /\ watcher = "onError"
    /\ \E t \in Tags : Undecodable(t) /\ QuotaSet(t)

C36_TombstonedIdIsNotCreatedAgain ==
    [][\A name \in TenantNames, id \in tenantTombstones, g \in TenantGroups :
          (/\ cluster.clusterType = METACLUSTER_DATA
           /\ CreateTenantTransaction(name, TenantMapEntry(id, g), METACLUSTER_DATA))
              => /\ tenantReturned' = Some(<<None, FALSE>>)
                 /\ UNCHANGED <<tenantMap, tenantGroupTenantIndex>>]_vars

\* The pairs (group, name) of the tenants of the map that have a group
GroupsOfTenantMap ==
    {<<get(tenantMap[n].tenantGroup), n>> :
        n \in {m \in DOMAIN tenantMap : present(tenantMap[m].tenantGroup)}}

(***************************************************************************)
(* C37.  As the claim reads: tenantGroupTenantIndex holds the pair         *)
(* (group, name) exactly for the names of the tenant map whose entry has   *)
(* that group.  The code violates it: renameTenant moves the entry to the  *)
(* new name and leaves the index pair under the old name.                  *)
(***************************************************************************)
C37_GroupIndexMatchesTenantMap ==
    tenantGroupTenantIndex = GroupsOfTenantMap

=============================================================================
